---- MODULE Spec2Model ----
(***************************************************************************)
(* Model of lakehouse-lite: the Streamlit dashboard (app/streamlit_app.py) *)
(* with its layered DB configuration, its TTL-cached loaders and its       *)
(* DataFrame sanitizer, and the ingestion job (src/ingest) that reloads    *)
(* raw.penguins in the same warehouse.                                     *)
(***************************************************************************)
EXTENDS Integers, Sequences, FiniteSets, TLC

VARIABLES
    env,          \* os.environ: key -> optional string
    secrets,      \* st.secrets content: key -> optional string
    storeOK,      \* FALSE: accessing st.secrets raises (no secrets.toml)
    engines,      \* number of create_engine() calls made so far
    cfg,          \* the dict built by the last get_db_config call
    diag,         \* keys named by the last st.error of get_db_config
    now,          \* wall clock, seconds
    nticks,       \* number of clock advances so far
    cache,        \* st.cache_data store: QuerySpec -> entry
    call,         \* the latest loader call and what it returned
    pc,           \* position of the dashboard script run
    summary,      \* script variable `summary`
    kpis,         \* the three metrics shown by the script run
    raw_df,       \* script variable `raw_df`
    mart,         \* rows of analytics.mart_penguin_summary
    rawPenguins,  \* committed rows of raw.penguins
    ipc,          \* position of the ingestion job
    t0,           \* the table handed to the sanitizer, as the caller built it
    heap,         \* DataFrame objects by identity
    rets          \* identities returned by successive _fix_for_streamlit calls

vars == <<env, secrets, storeOK, engines, cfg, diag, now, nticks, cache, call, pc,
          summary, kpis, raw_df, mart, rawPenguins, ipc, t0, heap, rets>>

cfgVars == <<env, secrets, storeOK>>
appVars == <<engines, cfg, diag, now, nticks, cache, call, pc, summary, kpis, raw_df>>
dbVars  == <<mart, rawPenguins, ipc>>
sanVars == <<t0, heap, rets>>

(***************************************************************************)
(* Bounds of the model.                                                    *)
(***************************************************************************)
MaxRows == 6
MaxEngines == 3
MaxTicks == 2
MaxLimit == 2

(***************************************************************************)
(* Cell values.  k is the Python type of the cell, s its text, n its       *)
(* number.  A null is None / NaN / pd.NA.                                  *)
(***************************************************************************)
StrV(x)    == [k |-> "str", s |-> x, n |-> 0]
IntV(i)    == [k |-> "int", s |-> "", n |-> i]
FloatV(x)  == [k |-> "float", s |-> x, n |-> 0]
BoolV(x)   == [k |-> "bool", s |-> x, n |-> 0]
NestedV(x) == [k |-> "nested", s |-> x, n |-> 0]
NullV      == [k |-> "null", s |-> "", n |-> 0]

IsNull(v) == v.k = "null"

\* str(x), as astype("string") applies it to a non-null cell
PyStr(v) ==
    IF v.k = "int" THEN StrV(ToString(v.n)) ELSE StrV(v.s)

Col(name, dtype, vals) == [name |-> name, dtype |-> dtype, vals |-> vals]

(***************************************************************************)
(* _fix_for_streamlit                                                      *)
(***************************************************************************)
SampleSize == 5

\* Series.astype("string"): every non-null cell becomes its str(), nulls stay
AsTypeStringCell(v) == IF IsNull(v) THEN NullV ELSE PyStr(v)

AsTypeString(c) ==
    Col(c.name, "string", [i \in 1..Len(c.vals) |-> AsTypeStringCell(c.vals[i])])

\* "pyarrow" in dt or "Arrow" in dt or dt.startswith("string[pyarrow]")
IsArrowDtype(dt) ==
    dt \in {"string[pyarrow]", "large_string[pyarrow]", "int64[pyarrow]"}

FixArrowCol(c) == IF IsArrowDtype(c.dtype) THEN AsTypeString(c) ELSE c

SeriesHead(s, n) == SubSeq(s, 1, IF Len(s) < n THEN Len(s) ELSE n)

\* df[c].dropna().head(5).tolist()
Sample(c) == SeriesHead(SelectSeq(c.vals, LAMBDA v : ~IsNull(v)), SampleSize)

\* isinstance(x, (str, int, float, bool))
IsInstancePrim(v) == v.k \in {"str", "int", "float", "bool"}

LooksLikeStringsAlways(c) == TRUE

LooksLikeStrings(c) == \A i \in 1..Len(Sample(c)) : IsInstancePrim(Sample(c)[i])

FixObjectCol(c) ==
    IF c.dtype = "object" /\ LooksLikeStrings(c) THEN AsTypeString(c) ELSE c

FixCol(c) == FixObjectCol(FixArrowCol(c))

\* the two loops over df.columns
FixCols(df) == [c \in 1..Len(df) |-> FixCol(df[c])]

\* df = df.copy(): the local name is rebound to a fresh object
CopyTargetAliased(src, fresh) == src

CopyTarget(src, fresh) == fresh

\* the heap after _fix_for_streamlit(src) has run, its result being `fresh`
FixForStreamlitHeap(h, src, fresh) ==
    [h EXCEPT ![CopyTarget(src, fresh)] = FixCols(h[src])]

\* the value returned by _fix_for_streamlit for a table value
FixForStreamlit(df) == FixCols(df)

(***************************************************************************)
(* Values of the variables a specification does not use.                   *)
(***************************************************************************)
NoTable == <<Col("", "none", <<>>)>>
Objs == {"t", "r1", "r2"}

NoCfgState ==
    /\ env = <<>> /\ secrets = <<>> /\ storeOK = FALSE
NoAppState ==
    /\ engines = 0 /\ cfg = <<>> /\ diag = <<>> /\ now = 0 /\ nticks = 0 /\ cache = <<>>
    /\ call = <<>> /\ pc = "off" /\ summary = NoTable /\ kpis = <<>>
    /\ raw_df = NoTable
NoDbState ==
    /\ mart = <<>> /\ rawPenguins = <<>> /\ ipc = "off"
NoSanState ==
    /\ t0 = NoTable /\ heap = <<>> /\ rets = <<>>

(***************************************************************************)
(* Configuration: _try_get_streamlit_secret, get_db_config, make_engine    *)
(***************************************************************************)
Keys == <<"DB_HOST", "DB_PORT", "DB_NAME", "DB_USER", "DB_PASSWORD", "DB_SSLMODE">>
KeySet == {Keys[i] : i \in 1..Len(Keys)}

\* an optional string: Python's None, or a str (possibly empty)
None == [some |-> FALSE, s |-> ""]
Some(x) == [some |-> TRUE, s |-> x]

\* bool(v) of an optional string
Truthy(v) == v.some /\ v.s # ""

\* Python's `a or b`
PyOr(a, b) == IF Truthy(a) THEN a ELSE b

\* os.getenv(key)
GetEnv(e, key) == e[key]

\* st.secrets.get(key, None), or None when reading st.secrets raises
TryGetStreamlitSecret(sec, ok, key) == IF ok THEN sec[key] ELSE None

\* one entry of the cfg dict literal
CfgEntrySecretsFirst(e, sec, ok, key) ==
    LET v == PyOr(TryGetStreamlitSecret(sec, ok, key), GetEnv(e, key))
    IN  IF key = "DB_PORT" THEN PyOr(v, Some("5432"))
        ELSE IF key = "DB_SSLMODE" THEN PyOr(v, Some("require"))
        ELSE v

CfgEntry(e, sec, ok, key) ==
    LET v == PyOr(GetEnv(e, key), TryGetStreamlitSecret(sec, ok, key))
    IN  IF key = "DB_PORT" THEN PyOr(v, Some("5432"))
        ELSE IF key = "DB_SSLMODE" THEN PyOr(v, Some("require"))
        ELSE v

BuildCfg(e, sec, ok) == [k \in KeySet |-> CfgEntry(e, sec, ok, k)]

\* missing = [k for k, v in cfg.items() if not v and k != "DB_SSLMODE"]
MissingFirstOnly(c) ==
    LET m == SelectSeq(Keys, LAMBDA k : ~Truthy(c[k]) /\ k # "DB_SSLMODE")
    IN  IF m = <<>> THEN m ELSE <<m[1]>>

Missing(c) == SelectSeq(Keys, LAMBDA k : ~Truthy(c[k]) /\ k # "DB_SSLMODE")

\* get_db_config: the dict, and the keys named by st.error before st.stop()
GetDbConfig(e, sec, ok) ==
    LET c == BuildCfg(e, sec, ok)
    IN  [cfg |-> c, missing |-> Missing(c), stopped |-> Missing(c) # <<>>]

\* make_engine() ends in st.stop(): no engine is created
MakeEngineStops ==
    LET r == GetDbConfig(env, secrets, storeOK)
    IN  /\ r.stopped
        /\ cfg' = r.cfg
        /\ diag' = r.missing
        /\ engines' = engines

\* make_engine() returns create_engine(url, pool_pre_ping=True)
MakeEngineReturns ==
    LET r == GetDbConfig(env, secrets, storeOK)
    IN  /\ ~r.stopped
        /\ engines < MaxEngines
        /\ cfg' = r.cfg
        /\ diag' = diag
        /\ engines' = engines + 1

(***************************************************************************)
(* Specification SpecCfg: make_engine() called under every combination of  *)
(* environment and secret-store content.                                   *)
(***************************************************************************)
EnvVals == {None, Some(""), Some("e")}
SecretVals == {None, Some("s")}

InitCfg ==
    /\ env \in [KeySet -> EnvVals]
    /\ secrets \in [KeySet -> SecretVals]
    /\ storeOK \in BOOLEAN
    /\ engines = 0 /\ cfg = <<>> /\ diag = <<>> /\ now = 0 /\ nticks = 0
    /\ cache = <<>> /\ call = <<>> /\ pc = "boot" /\ summary = NoTable
    /\ kpis = <<>> /\ raw_df = NoTable
    /\ NoDbState /\ NoSanState

CfgStop ==
    /\ MakeEngineStops
    /\ pc' = "stopped"
    /\ UNCHANGED <<cfgVars, now, nticks, cache, call, summary, kpis, raw_df,
                   dbVars, sanVars>>

CfgEngine ==
    /\ MakeEngineReturns
    /\ pc' = "engine"
    /\ UNCHANGED <<cfgVars, now, nticks, cache, call, summary, kpis, raw_df,
                   dbVars, sanVars>>

NextCfg == CfgStop \/ CfgEngine

SpecCfg == InitCfg /\ [][NextCfg]_vars

(***************************************************************************)
(* The warehouse: analytics.mart_penguin_summary and raw.penguins          *)
(***************************************************************************)
SummaryColumns ==
    <<"species", "sex", "penguin_count", "avg_body_mass_g", "avg_flipper_length_mm">>
RawColumns ==
    <<"species", "island", "bill_length_mm", "bill_depth_mm",
      "flipper_length_mm", "body_mass_g", "sex">>
TextColumns == {"species", "island", "sex"}
IntColumns == {"penguin_count"}

SummaryRow(sp, sx, cnt, mass, flip) ==
    [species |-> StrV(sp), sex |-> sx, penguin_count |-> IntV(cnt),
     avg_body_mass_g |-> FloatV(mass), avg_flipper_length_mm |-> FloatV(flip)]

PenguinRow(sp, isl, bl, bd, fl, bm, sx) ==
    [species |-> StrV(sp), island |-> StrV(isl), bill_length_mm |-> bl,
     bill_depth_mm |-> bd, flipper_length_mm |-> fl, body_mass_g |-> bm,
     sex |-> sx]

\* what the transformation job can have left in the mart
MartChoices ==
    { {},
      { SummaryRow("Gentoo", StrV("female"), 58, "4679.7", "212.7"),
        SummaryRow("Adelie", StrV("male"), 73, "4043.5", "192.4"),
        SummaryRow("Adelie", StrV("female"), 73, "3368.8", "187.8") } }

\* the rows of penguins.csv
Dataset ==
    << PenguinRow("Adelie", "Torgersen", FloatV("39.1"), FloatV("18.7"),
                  FloatV("181.0"), FloatV("3750.0"), StrV("male")),
       PenguinRow("Adelie", "Torgersen", NullV, NullV, NullV, NullV, NullV) >>

\* collation order of the text values of the mart; NULLs sort last
TextRank(v) ==
    IF IsNull(v) THEN 9
    ELSE IF v.s \in {"Adelie", "female"} THEN 1
    ELSE IF v.s \in {"Chinstrap", "male"} THEN 2
    ELSE 3

RowLeq(a, b) ==
    \/ TextRank(a.species) < TextRank(b.species)
    \/ /\ TextRank(a.species) = TextRank(b.species)
       /\ TextRank(a.sex) <= TextRank(b.sex)

\* select ... from analytics.mart_penguin_summary order by species, sex
SummaryQuery(m) ==
    CHOOSE q \in [1..Cardinality(m) -> m] :
        /\ \A i, j \in DOMAIN q : i # j => q[i] # q[j]
        /\ \A i, j \in DOMAIN q : i < j => RowLeq(q[i], q[j])

Min(a, b) == IF a < b THEN a ELSE b

\* select ... from raw.penguins limit :limit  -- no ORDER BY: any rows, any order
RawSampleQuery(tbl, limit) ==
    { [i \in 1..Min(limit, Len(tbl)) |-> tbl[ix[i]]] :
        ix \in { f \in [1..Min(limit, Len(tbl)) -> 1..Len(tbl)] :
                   \A i, j \in DOMAIN f : i # j => f[i] # f[j] } }

\* pd.read_sql: one column per selected name; a text column, and a column
\* with no non-null value (so every column of an empty result), is object
ReadSqlDtype(rows, name) ==
    IF name \in TextColumns \/ \A i \in 1..Len(rows) : IsNull(rows[i][name])
    THEN "object"
    ELSE IF name \in IntColumns THEN "int64"
    ELSE "float64"

ReadSql(rows, columns) ==
    [c \in 1..Len(columns) |->
        Col(columns[c], ReadSqlDtype(rows, columns[c]),
            [i \in 1..Len(rows) |-> rows[i][columns[c]]])]

(***************************************************************************)
(* The cached loaders: @st.cache_data(ttl=300) on load_summary and         *)
(* load_raw_sample                                                         *)
(***************************************************************************)
TTL == 300

Limits == 1..MaxLimit
SummarySpec == [op |-> "load_summary", limit |-> 0]
RawSpec(l) == [op |-> "load_raw_sample", limit |-> l]
QSpecs == {SummarySpec} \cup {RawSpec(l) : l \in Limits}

NoEntry == [present |-> FALSE, value |-> NoTable, computed_at |-> 0]
Entry(v, t) == [present |-> TRUE, value |-> v, computed_at |-> t]

\* the entry is served while it is younger than the ttl
FreshInclusive(e, t) == e.present /\ t - e.computed_at <= TTL

Fresh(e, t) == e.present /\ t - e.computed_at < TTL

NoCall ==
    [spec |-> SummarySpec, at |-> 0, outcome |-> "none", queried |-> FALSE,
     value |-> NoTable, computed_at |-> 0, before |-> NoEntry]

\* the tables the body of the loader can return in the current state
LoaderResults(qs) ==
    IF qs.op = "load_summary"
    THEN {FixForStreamlit(ReadSql(SummaryQuery(mart), SummaryColumns))}
    ELSE {FixForStreamlit(ReadSql(r, RawColumns)) :
            r \in RawSampleQuery(rawPenguins, qs.limit)}

\* what a failed call leaves in the cache
CacheAfterFailureDropsEntry(c, qs) == [c EXCEPT ![qs] = NoEntry]

CacheAfterFailure(c, qs) == c

\* one call of a cached loader
CachedLoad(qs) ==
    IF Fresh(cache[qs], now)
    THEN /\ call' = [spec |-> qs, at |-> now, outcome |-> "hit",
                     queried |-> FALSE, value |-> cache[qs].value,
                     computed_at |-> cache[qs].computed_at,
                     before |-> cache[qs]]
         /\ UNCHANGED <<cache, engines, cfg, diag>>
    ELSE IF GetDbConfig(env, secrets, storeOK).stopped
    THEN /\ MakeEngineStops
         /\ call' = [spec |-> qs, at |-> now, outcome |-> "stopped",
                     queried |-> FALSE, value |-> NoTable,
                     computed_at |-> 0, before |-> cache[qs]]
         /\ cache' = CacheAfterFailure(cache, qs)
    ELSE /\ MakeEngineReturns
         /\ \E ok \in BOOLEAN :
              IF ok
              THEN \E tbl \in LoaderResults(qs) :
                     /\ call' = [spec |-> qs, at |-> now, outcome |-> "computed",
                                 queried |-> TRUE, value |-> tbl,
                                 computed_at |-> now, before |-> cache[qs]]
                     /\ cache' = [cache EXCEPT ![qs] = Entry(tbl, now)]
              ELSE /\ call' = [spec |-> qs, at |-> now, outcome |-> "raised",
                               queried |-> TRUE, value |-> NoTable,
                               computed_at |-> 0, before |-> cache[qs]]
                   /\ cache' = CacheAfterFailure(cache, qs)

Returned(c) == c.outcome \in {"hit", "computed"}

(***************************************************************************)
(* The dashboard script                                                    *)
(***************************************************************************)
ColOf(df, name) == df[CHOOSE i \in 1..Len(df) : df[i].name = name]

RECURSIVE SumCells(_)
SumCells(vals) ==
    IF vals = <<>> THEN 0
    ELSE (IF IsNull(vals[1]) THEN 0 ELSE vals[1].n) + SumCells(Tail(vals))

\* int(len(summary))
TotalGroups(df) == Len(df[1].vals)

\* int(summary["penguin_count"].sum())
TotalPenguins(df) == SumCells(ColOf(df, "penguin_count").vals)

\* int(summary["species"].nunique())
SpeciesCountRows(df) == Len(ColOf(df, "species").vals)

SpeciesCount(df) ==
    LET vals == ColOf(df, "species").vals
    IN  Cardinality({vals[i] : i \in {j \in 1..Len(vals) : ~IsNull(vals[j])}})

\* Series.sum() raises on a string column
SumRaises(df) == ColOf(df, "penguin_count").dtype \notin {"int64", "float64"}

NoKpis == [shown |-> FALSE, total_groups |-> 0, total_penguins |-> 0,
           species_count |-> 0]

Kpis(df) ==
    IF SumRaises(df) THEN NoKpis
    ELSE [shown |-> TRUE, total_groups |-> TotalGroups(df),
          total_penguins |-> TotalPenguins(df),
          species_count |-> SpeciesCount(df)]

Init ==
    /\ env \in { [k \in KeySet |-> Some("e")],
                 [k \in KeySet |-> IF k = "DB_PASSWORD" THEN None ELSE Some("e")] }
    /\ secrets = [k \in KeySet |-> None]
    /\ storeOK = FALSE
    /\ engines = 0 /\ cfg = <<>> /\ diag = <<>>
    /\ now = 0 /\ nticks = 0
    /\ cache = [qs \in QSpecs |-> NoEntry]
    /\ call = NoCall
    /\ pc = "idle"
    /\ summary = NoTable /\ kpis = NoKpis /\ raw_df = NoTable
    /\ mart \in MartChoices
    /\ rawPenguins \in {<<>>, Dataset}
    /\ ipc = "never"
    /\ NoSanState

\* a script run, down to the slider: summary = load_summary(), then the KPIs
RunSummary ==
    /\ pc = "idle"
    /\ CachedLoad(SummarySpec)
    /\ raw_df' = NoTable
    /\ IF Returned(call') /\ Kpis(call'.value).shown
       THEN /\ summary' = call'.value
            /\ kpis' = Kpis(call'.value)
            /\ pc' = "slider"
       ELSE /\ summary' = (IF Returned(call') THEN call'.value ELSE NoTable)
            /\ kpis' = NoKpis
            /\ pc' = "idle"
    /\ UNCHANGED <<cfgVars, now, nticks, dbVars, sanVars>>

\* the rest of the script run: raw_df = load_raw_sample(limit=limit)
RunRawSample(limit) ==
    /\ pc = "slider"
    /\ CachedLoad(RawSpec(limit))
    /\ raw_df' = (IF Returned(call') THEN call'.value ELSE NoTable)
    /\ pc' = "idle"
    /\ UNCHANGED <<cfgVars, now, nticks, summary, kpis, dbVars, sanVars>>

\* time passes, observed every half TTL
Tick ==
    /\ nticks < MaxTicks
    /\ now' = now + TTL \div 2
    /\ nticks' = nticks + 1
    /\ UNCHANGED <<cfgVars, engines, cfg, diag, cache, call, pc, summary, kpis,
                   raw_df, dbVars, sanVars>>

\* the transformation job rebuilds the mart
MartRefresh ==
    /\ mart' \in MartChoices \ {mart}
    /\ UNCHANGED <<cfgVars, appVars, rawPenguins, ipc, sanVars>>

\* ingest main(): ensure_table and TRUNCATE, committed by the with block
IngestClear ==
    /\ ipc \in {"never", "idle"}
    /\ rawPenguins' = <<>>
    /\ ipc' = "cleared"
    /\ UNCHANGED <<cfgVars, appVars, mart, sanVars>>

\* ingest main(): df.to_sql(..., if_exists="append"), its own transaction
IngestAppend ==
    /\ ipc = "cleared"
    /\ rawPenguins' = rawPenguins \o Dataset
    /\ ipc' = "idle"
    /\ UNCHANGED <<cfgVars, appVars, mart, sanVars>>

Next ==
    \/ RunSummary
    \/ \E l \in Limits : RunRawSample(l)
    \/ Tick
    \/ MartRefresh
    \/ IngestClear
    \/ IngestAppend

Spec == Init /\ [][Next]_vars

(***************************************************************************)
(* Specification SpecSan: the sanitizer applied to arbitrary small tables, *)
(* then applied again to its own result.                                   *)
(***************************************************************************)
RECURSIVE SeqsOfLen(_, _)
SeqsOfLen(S, n) ==
    IF n = 0 THEN {<<>>}
    ELSE {Append(s, x) : s \in SeqsOfLen(S, n - 1), x \in S}

ObjVals == {StrV("a"), NestedV("{}"), NullV}

TypedFill == [dt \in {"string[pyarrow]", "int64[pyarrow]", "string", "int64"} |->
                 IF dt \in {"int64", "int64[pyarrow]"} THEN IntV(3) ELSE StrV("x")]

InputTables ==
    UNION {
        { <<Col("a", "object", s),
            Col("b", dt, [i \in 1..n |-> TypedFill[dt]])>> :
              s \in SeqsOfLen(ObjVals, n), dt \in DOMAIN TypedFill }
        : n \in 0..MaxRows }

InitSan ==
    /\ NoCfgState /\ NoAppState /\ NoDbState
    /\ t0 \in InputTables
    /\ heap = [o \in Objs |-> IF o = "t" THEN t0 ELSE NoTable]
    /\ rets = <<>>

\* r = _fix_for_streamlit(t)
SanitizeFirst ==
    /\ rets = <<>>
    /\ heap' = FixForStreamlitHeap(heap, "t", "r1")
    /\ rets' = <<CopyTarget("t", "r1")>>
    /\ UNCHANGED <<t0, cfgVars, appVars, dbVars>>

\* r2 = _fix_for_streamlit(r)
SanitizeAgain ==
    /\ Len(rets) = 1
    /\ heap' = FixForStreamlitHeap(heap, rets[1], "r2")
    /\ rets' = Append(rets, CopyTarget(rets[1], "r2"))
    /\ UNCHANGED <<t0, cfgVars, appVars, dbVars>>

NextSan == SanitizeFirst \/ SanitizeAgain

SpecSan == InitSan /\ [][NextSan]_vars

(***************************************************************************)
(* Properties                                                              *)
(***************************************************************************)
Range(q) == {q[i] : i \in 1..Len(q)}

\* C1: a loader call made while the entry for its QuerySpec is younger than
\* the TTL returns that entry's table and compute time without running the
\* query or touching the cache; a call made once the TTL has elapsed runs
\* the query, and what it returns then is a result of the query on the
\* current data, stored with a newer compute time.
C1_CacheFreshness ==
    [][ call' # call =>
          LET e == cache[call'.spec]
          IN  /\ (e.present /\ now - e.computed_at < TTL) =>
                    /\ call'.outcome = "hit"
                    /\ ~call'.queried
                    /\ call'.value = e.value
                    /\ call'.computed_at = e.computed_at
                    /\ cache' = cache
                    /\ engines' = engines
              /\ (e.present /\ now - e.computed_at >= TTL) =>
                    /\ call'.queried
                    /\ Returned(call') =>
                         /\ call'.computed_at = now
                         /\ call'.computed_at > e.computed_at
                         /\ call'.value \in LoaderResults(call'.spec)
                         /\ cache'[call'.spec] = Entry(call'.value, now)
      ]_vars

C1_Witness ==
    /\ call.outcome = "computed"
    /\ call.before.present
    /\ call.at - call.before.computed_at = TTL
    /\ call.value # call.before.value

\* C2: a loader call whose body stops or raises returns no table and leaves
\* the whole cache as it was; the entry stored before for its QuerySpec,
\* stale or not, is still there.
C2_NoPoisonedEntry ==
    [][ call'.outcome \in {"stopped", "raised"} =>
          /\ cache' = cache
          /\ call' # call =>
               /\ call'.value = NoTable
               /\ cache'[call'.spec] = call'.before
               /\ call'.before = cache[call'.spec]
      ]_vars

C2_Witness ==
    /\ call.outcome = "raised"
    /\ call.before.present
    /\ call.at - call.before.computed_at >= TTL
    /\ cache[call.spec] = call.before

HasDefault(k) == k \in {"DB_PORT", "DB_SSLMODE"}
DefaultOf(k) == IF k = "DB_PORT" THEN Some("5432") ELSE Some("require")
SecretGiven(k) == storeOK /\ Truthy(secrets[k])

\* C3 as stated: when the environment and a reachable secret store both give
\* a value for a key, the secret-store value is the resolved one.
C3_SecretStoreWins ==
    pc # "boot" =>
        \A k \in KeySet :
            (Truthy(env[k]) /\ SecretGiven(k)) => cfg[k] = secrets[k]

\* C3 amended: the environment value is the resolved one whenever it is set
\* and non-empty, whatever the secret store holds and whether or not it is
\* reachable; the secret-store value is used only when the environment gives
\* none and the store is reachable; the default (DB_PORT, DB_SSLMODE) only
\* when neither gives one, and the other keys then resolve to nothing.
C3_EnvironmentWins ==
    pc # "boot" =>
        \A k \in KeySet :
            /\ Truthy(env[k]) => cfg[k] = env[k]
            /\ (~Truthy(env[k]) /\ SecretGiven(k)) => cfg[k] = secrets[k]
            /\ (~Truthy(env[k]) /\ ~SecretGiven(k)) =>
                   IF HasDefault(k) THEN cfg[k] = DefaultOf(k)
                   ELSE ~Truthy(cfg[k])

C3_Witness ==
    /\ pc # "boot"
    /\ Truthy(env["DB_HOST"]) /\ SecretGiven("DB_HOST")
    /\ cfg["DB_HOST"] = env["DB_HOST"]
    /\ ~storeOK \/ cfg["DB_HOST"] # secrets["DB_HOST"]

RequiredKeys == {"DB_HOST", "DB_NAME", "DB_USER", "DB_PASSWORD"}
Unresolved == {k \in RequiredKeys : ~Truthy(env[k]) /\ ~SecretGiven(k)}

\* C4: when some required key gets no non-empty value from either source,
\* make_engine stops with no engine created and the diagnostic names exactly
\* those keys, all of them; DB_PORT and DB_SSLMODE are never named; with no
\* such key the engine is created and nothing is reported.
C4_MissingKeysNamed ==
    pc # "boot" =>
        /\ Unresolved # {} =>
              /\ pc = "stopped"
              /\ engines = 0
              /\ Range(diag) = Unresolved
              /\ Len(diag) = Cardinality(Unresolved)
        /\ Unresolved = {} => (pc = "engine" /\ diag = <<>> /\ engines > 0)
        /\ Range(diag) \cap {"DB_PORT", "DB_SSLMODE"} = {}

C4_Witness ==
    /\ pc = "stopped"
    /\ engines = 0
    /\ diag = <<"DB_HOST", "DB_PASSWORD">>
    /\ ~Truthy(env["DB_PORT"]) /\ ~SecretGiven("DB_PORT")

RECURSIVE C5_SumOver(_, _)
C5_SumOver(vals, I) ==
    IF I = {} THEN 0
    ELSE LET i == CHOOSE x \in I : TRUE
         IN  vals[i].n + C5_SumOver(vals, I \ {i})

\* C5: the metrics a script run shows agree with the summary table of that
\* run: the group total is its row count, the penguin total is the sum of
\* its penguin_count column and the species count is the number of distinct
\* species in it.
C5_KpisMatchSummary ==
    kpis.shown =>
        LET species == ColOf(summary, "species").vals
            counts == ColOf(summary, "penguin_count").vals
            rows == 1..Len(species)
        IN  /\ kpis.total_groups = Len(species)
            /\ kpis.total_penguins =
                   C5_SumOver(counts, {i \in rows : ~IsNull(counts[i])})
            /\ kpis.species_count =
                   Cardinality({species[i].s : i \in {j \in rows : ~IsNull(species[j])}})

C5_Witness ==
    /\ kpis.shown
    /\ call.spec = SummarySpec /\ call.outcome = "hit"
    /\ summary = call.value
    /\ kpis.total_groups = 3 /\ kpis.total_penguins = 204
    /\ kpis.species_count = 2

IsPrefixTable(a, b) ==
    \A c \in 1..Len(a) :
        /\ Len(a[c].vals) <= Len(b[c].vals)
        /\ a[c].vals = SubSeq(b[c].vals, 1, Len(a[c].vals))

\* C6: while raw.penguins is as it was when the dashboard started, every
\* cached sample has at most `limit` rows, and the sample for a limit a is
\* the first rows of the sample for any larger limit b.
C6_SamplePrefixStable ==
    ipc = "never" =>
        \A a, b \in Limits :
            (a < b /\ cache[RawSpec(a)].present /\ cache[RawSpec(b)].present) =>
                /\ Len(cache[RawSpec(a)].value[1].vals) <= a
                /\ Len(cache[RawSpec(b)].value[1].vals) <= b
                /\ IsPrefixTable(cache[RawSpec(a)].value, cache[RawSpec(b)].value)

\* C9: the process creates at most one engine, however many loader calls
\* miss the cache.
C9_SingleEngine == engines <= 1

\* C10: a row of raw.penguins that a dashboard read can see stays visible in
\* every later state of the table.
C10_RowsStayVisible ==
    [][ \A i \in 1..Len(rawPenguins) :
            \E j \in 1..Len(rawPenguins') : rawPenguins'[j] = rawPenguins[i]
      ]_vars

IsPrimitiveScalar(v) == v.k \in {"str", "int", "float", "bool", "null"}
AllPrimitive(c) == \A i \in 1..Len(c.vals) : IsPrimitiveScalar(c.vals[i])

\* a non-primitive cell with fewer than five non-null cells before it
NestedAmongFirstFive(vals) ==
    \E j \in 1..Len(vals) :
        /\ ~IsPrimitiveScalar(vals[j])
        /\ Cardinality({i \in 1..(j - 1) : ~IsNull(vals[i])}) < SampleSize

\* C7 as stated: every cell of every column of the sanitized table is a
\* primitive scalar.
C7_OnlyPrimitives ==
    Len(rets) >= 1 =>
        \A c \in 1..Len(heap[rets[1]]) : AllPrimitive(heap[rets[1]][c])

\* C7 amended: an object column whose first five non-null values are all
\* str, int, float or bool comes back as a string column holding only
\* strings and nulls, a nested value further down being replaced by its
\* text; an object column with a nested value among its first five non-null
\* values comes back unchanged, nested values included.
C7_PrimitivesUnlessSampledNested ==
    Len(rets) >= 1 =>
        \A c \in 1..Len(t0) :
            LET cin == t0[c]
                cout == heap[rets[1]][c]
            IN  cin.dtype = "object" =>
                    IF NestedAmongFirstFive(cin.vals)
                    THEN cout = cin
                    ELSE /\ cout.dtype = "string"
                         /\ \A i \in 1..Len(cout.vals) :
                                cout.vals[i].k \in {"str", "null"}

C7_Witness ==
    /\ Len(rets) >= 1
    /\ Len(t0[1].vals) = SampleSize + 1
    /\ t0[1].vals[SampleSize + 1].k = "nested"
    /\ \A i \in 1..SampleSize : t0[1].vals[i].k = "str"
    /\ heap[rets[1]][1].vals[SampleSize + 1] = StrV("{}")

\* C8: sanitizing a sanitized table gives back an equal table, and the table
\* handed to the sanitizer is as the caller built it after either call.
C8_IdempotentAndPure ==
    /\ Len(rets) >= 1 => heap["t"] = t0
    /\ Len(rets) = 2 =>
          /\ heap[rets[2]] = heap[rets[1]]
          /\ heap[rets[2]] = FixCols(t0)

C8_Witness ==
    /\ Len(rets) = 2
    /\ heap[rets[1]] # t0
    /\ heap[rets[2]] = heap[rets[1]]
    /\ \E i \in 1..Len(t0[1].vals) : t0[1].vals[i].k = "nested"

====
